---- MODULE Spec2Model ----
(***************************************************************************)
(* Model of imars3d/backend/data.py: the load_data orchestrator, the       *)
(* explicit-list strategy _load_by_file_list, the parallel image loader    *)
(* _load_images and the forgiving reader.                                  *)
(*                                                                         *)
(* One behaviour is one call.  Three entry points are modelled, each with  *)
(* its own specification: SpecLoadImages (a direct call of _load_images),  *)
(* SpecFileList (a direct call of _load_by_file_list) and SpecLoadData (a  *)
(* call of load_data).  pc is the position of the call in the code.        *)
(***************************************************************************)
EXTENDS Integers, Sequences, FiniteSets, TLC

VARIABLES
    call,             \* the arguments of the call (fixed during a behaviour)
    pc,               \* position in the code
    err,              \* the exception that left the call, if any
    self_max_workers, \* self.max_workers after line 95
    role,             \* desc of the running _load_images call
    filelist,         \* filelist of the running _load_images call
    max_workers,      \* max_workers of the running _load_images call
    reader,           \* the reader chosen at lines 241-248
    pool,             \* worker processes of the running pool
    status,           \* per file of the batch: pending, running, done
    rst,              \* what process_map returns, one slot per file
    finished,         \* the positions of the batch in the order their reads ended
    ret,              \* the array _load_images returns
    decodes,          \* every reader(filename) call made so far
    diags,            \* logger records emitted so far
    pools,            \* every pool created so far, with its worker count
    ct, ob, dc,       \* the stacks of _load_by_file_list
    ct_files,         \* the local ct_files of load_data.__call__
    rot_angles        \* the local rot_angles of load_data.__call__

vars == <<call, pc, err, self_max_workers, role, filelist, max_workers, reader,
          pool, status, rst, finished, ret, decodes, diags, pools, ct, ob, dc,
          ct_files, rot_angles>>

---------------------------------------------------------------------------
(* Bounds *)

MaxFiles == 3

MaxCt == 2

MaxWorkers == 2

MaxCpu == 3

---------------------------------------------------------------------------
(* Program constants *)

\* param.Integer(default=0, bounds=(0, None)): the default of max_workers
DefaultMaxWorkers == 0

\* param.Integer(default=0, bounds=(0, None)): the lower bound of max_workers
LowerBound == 0

\* multiprocessing.cpu_count() - 2
ReservedCpus == 2

\* def _load_by_file_list(..., max_workers: int = 0)
FileListDefaultMaxWorkers == 0

\* default="\b*": in a Python string literal \b is the backspace character,
\* so the pattern is "zero or more backspaces" (written <BS>* here)
DefaultRegex == "<BS>*"

---------------------------------------------------------------------------
(* Files on disk.  A path is name ++ ext; good tells whether the file is a *)
(* well-formed image of the kind its extension names; omega is the angle   *)
(* the acquisition recorded for it.                                        *)

FileA == [name |-> "a", ext |-> ".tiff", good |-> TRUE,  omega |-> 0]

FileB == [name |-> "b", ext |-> ".TIF",  good |-> FALSE, omega |-> 10]

FileC == [name |-> "b", ext |-> ".fits", good |-> TRUE,  omega |-> 20]

FileD == [name |-> "a", ext |-> ".bad",  good |-> TRUE,  omega |-> 30]

Files == {FileA, FileB, FileC, FileD}

SeqsUpTo(S, n) == UNION {[1..k -> S] : k \in 0..n}

\* str.lower() on the suffixes of Files
Lower(ext) == IF ext = ".TIF" THEN ".tif" ELSE ext

\* Path(f).suffix.lower()
Suffix(f) == Lower(f.ext)

\* re.compile(regex).match(path): the pattern is matched at the start of the
\* path.  <BS>* matches zero backspaces, hence every path; a one-letter
\* pattern matches the paths that start with that letter.
re_match(regex, f) == IF regex = DefaultRegex THEN TRUE ELSE f.name = regex

\* [f for f in files if re.match(f)]
Filter(files, regex) == SelectSeq(files, LAMBDA f : re_match(regex, f))

---------------------------------------------------------------------------
(* Values *)

NoError == [type |-> "none", why |-> "none"]

Raise(type, why) == [type |-> type, why |-> why]

Unset == [state |-> "unset", frames |-> <<>>]

None == [state |-> "None", frames |-> <<>>]

Array(frames) == [state |-> "array", frames |-> frames]

NoAngles == [state |-> "unset", vals |-> <<>>]

\* a slot of rst that no worker has filled yet
Empty == [kind |-> "empty", pos |-> 0, file |-> FileA]

\* the array reader(filename) returns for the file at position pos
Frame(pos, f) == [kind |-> "frame", pos |-> pos, file |-> f]

\* the None _forgiving_reader returns for the file at position pos
Absent(pos, f) == [kind |-> "None", pos |-> pos, file |-> f]

\* a record of the module logger
Log(level, what, r, pos) == [level |-> level, what |-> what, role |-> r, pos |-> pos]

Unbound == [bound |-> FALSE, val |-> <<>>]

Bound(v) == [bound |-> TRUE, val |-> v]

---------------------------------------------------------------------------
(* The calls *)

Regexes == {DefaultRegex, "a"}

\* the ob and dc lists the calls are made with
RefLists == {<<>>, <<FileA>>, <<FileB>>}

FileKeys == {"ct_files", "ob_files", "dc_files"}

DirKeys == {"ct_dir", "ob_dir", "dc_dir"}

\* the combinations of directory fields a request is made with
DirChoices == {{}, {"ct_dir"}, {"ob_dir", "dc_dir"}, DirKeys}

NoCall == [kind |-> "none", supplied |-> {}, filelist |-> <<>>,
           ct_files |-> <<>>, ob_files |-> <<>>, dc_files |-> <<>>,
           ct_regex |-> DefaultRegex, ob_regex |-> DefaultRegex,
           dc_regex |-> DefaultRegex, max_workers |-> DefaultMaxWorkers,
           cpu_count |-> 1]

\* _load_images(filelist, desc="test", max_workers=w)
LoadImagesCalls ==
    {[NoCall EXCEPT !.kind = "_load_images", !.filelist = fl, !.max_workers = w] :
        fl \in SeqsUpTo(Files, MaxFiles), w \in 0..MaxWorkers}

\* _load_by_file_list(ct_files, ob_files, dc_files, ct_regex, ob_regex,
\* dc_regex[, max_workers])
FileListCalls ==
    {[NoCall EXCEPT !.kind = "_load_by_file_list",
                    !.ct_files = c, !.ob_files = o, !.dc_files = d,
                    !.ct_regex = rx[1], !.ob_regex = rx[2], !.dc_regex = rx[3],
                    !.max_workers = w] :
        c \in SeqsUpTo(Files, MaxCt), o \in RefLists, d \in RefLists,
        rx \in Regexes \X Regexes \X Regexes,
        w \in {FileListDefaultMaxWorkers} \cup 1..MaxWorkers}

\* load_data(**params) with the fields fk, dk, rk and wk supplied, on a machine
\* with n CPUs.  A field that is not supplied holds its declared default
\* (lines 71-84).
LoadDataCall(fk, dk, rk, wk, c, o, d, w, n) ==
    [NoCall EXCEPT !.kind = "load_data",
                   !.supplied = fk \cup dk \cup rk \cup wk,
                   !.ct_files = c, !.ob_files = o, !.dc_files = d,
                   !.ct_regex = IF rk = {} THEN DefaultRegex ELSE "a",
                   !.max_workers = w,
                   !.cpu_count = n]

---------------------------------------------------------------------------
(* Initial states *)

InitCommon ==
    /\ err = NoError
    /\ self_max_workers = DefaultMaxWorkers
    /\ reader = "none"
    /\ pool = 0
    /\ ret = Unset
    /\ decodes = {}
    /\ diags = <<>>
    /\ pools = <<>>
    /\ ct = Unset
    /\ ob = Unset
    /\ dc = Unset
    /\ ct_files = Unbound
    /\ rot_angles = NoAngles

NoBatch ==
    /\ role = "none"
    /\ filelist = <<>>
    /\ max_workers = 0
    /\ status = <<>>
    /\ rst = <<>>
    /\ finished = <<>>

InitLoadImages ==
    /\ call \in LoadImagesCalls
    /\ pc = "li_enter"
    /\ role = "test"
    /\ filelist = call.filelist
    /\ max_workers = call.max_workers
    /\ status = [i \in 1..Len(call.filelist) |-> "pending"]
    /\ rst = [i \in 1..Len(call.filelist) |-> Empty]
    /\ finished = <<>>
    /\ InitCommon

InitFileList ==
    /\ call \in FileListCalls
    /\ pc = "fl_check"
    /\ NoBatch
    /\ InitCommon

InitLoadData ==
    /\ \E fk \in SUBSET FileKeys, dk \in DirChoices,
          rk \in {{}, {"ct_regex"}}, wk \in {{}, {"max_workers"}}, n \in 1..MaxCpu :
         \E c \in IF "ct_files" \in fk THEN SeqsUpTo(Files, MaxCt) ELSE {<<>>},
            o \in IF "ob_files" \in fk THEN RefLists ELSE {<<>>},
            d \in IF "dc_files" \in fk THEN RefLists ELSE {<<>>},
            w \in IF wk = {} THEN {DefaultMaxWorkers} ELSE (-1)..MaxWorkers :
           call = LoadDataCall(fk, dk, rk, wk, c, o, d, w, n)
    /\ pc = "ld_validate"
    /\ NoBatch
    /\ InitCommon

---------------------------------------------------------------------------
(* load_data.__call__ *)

Throw(e) ==
    /\ err' = e
    /\ pc' = "raised"

\* the signature words of the supplied keys: k.split("_")[-1]
KeyWord(k) ==
    CASE k \in FileKeys -> "files"
      [] k \in DirKeys -> "dir"
      [] k = "max_workers" -> "workers"
      [] OTHER -> "regex"

\* "regex" not in k
IsRegexKey(k) == k \in {"ct_regex", "ob_regex", "dc_regex"}

\* sigs = set([k.split("_")[-1] for k in params.keys() if "regex" not in k])
Sigs(supplied) == {KeyWord(k) : k \in {x \in supplied : ~IsRegexKey(x)}}

\* the bounds check param.Integer makes whenever max_workers is set
InBounds(v) == v >= LowerBound

\* multiprocessing.cpu_count() - 2 if params.max_workers == 0 else params.max_workers
ResolveMaxWorkers(requested, cpu_count) ==
    IF requested = 0 THEN cpu_count - ReservedCpus ELSE requested

\* _ = self.instance(**params)
LoadDataValidate ==
    /\ pc = "ld_validate"
    /\ IF InBounds(call.max_workers)
       THEN /\ pc' = "ld_resolve"
            /\ err' = err
       ELSE Throw(Raise("ValueError", "max_workers out of bounds"))
    /\ UNCHANGED <<call, self_max_workers, role, filelist, max_workers, reader,
                   pool, status, rst, finished, ret, decodes, diags, pools, ct, ob, dc,
                   ct_files, rot_angles>>

\* self.max_workers = ...
LoadDataResolve ==
    /\ pc = "ld_resolve"
    /\ LET v == ResolveMaxWorkers(call.max_workers, call.cpu_count)
       IN  IF InBounds(v)
           THEN /\ self_max_workers' = v
                /\ pc' = "ld_dispatch"
                /\ err' = err
           ELSE /\ Throw(Raise("ValueError", "max_workers out of bounds"))
                /\ self_max_workers' = self_max_workers
    /\ UNCHANGED <<call, role, filelist, max_workers, reader, pool, status, rst, finished,
                   ret, decodes, diags, pools, ct, ob, dc, ct_files, rot_angles>>

\* the multiple dispatch on sigs
LoadDataDispatch ==
    /\ pc = "ld_dispatch"
    /\ LET sigs == Sigs(call.supplied)
       IN  CASE sigs = {"files", "dir"} ->
                  /\ Throw(Raise("ValueError", "Mix usage of allowed signature."))
                  /\ diags' = Append(diags, Log("error", "mix", "none", 0))
             [] sigs = {"files"} ->
                  /\ pc' = "fl_check"
                  /\ UNCHANGED <<err, diags>>
             [] sigs = {"dir"} ->
                  /\ pc' = "by_dir"
                  /\ UNCHANGED <<err, diags>>
             [] OTHER ->
                  /\ pc' = "ld_extract"
                  /\ diags' = Append(diags, Log("warning", "unknown arguments", "none", 0))
                  /\ err' = err
    /\ UNCHANGED <<call, self_max_workers, role, filelist, max_workers, reader,
                   pool, status, rst, finished, ret, decodes, pools, ct, ob, dc, ct_files,
                   rot_angles>>

\* _load_by_dir: the body is a stub
LoadByDir ==
    /\ pc = "by_dir"
    /\ Throw(Raise("NotImplementedError", "_load_by_dir"))
    /\ UNCHANGED <<call, self_max_workers, role, filelist, max_workers, reader,
                   pool, status, rst, finished, ret, decodes, diags, pools, ct, ob, dc,
                   ct_files, rot_angles>>

\* one angle per file of filelist, in the order of filelist
_extract_rotation_angles(fl) == [i \in 1..Len(fl) |-> fl[i].omega]

\* rot_angles = _extract_rotation_angles(ct_files); return ct, ob, dc, rot_angles
LoadDataExtract ==
    /\ pc = "ld_extract"
    /\ IF ct_files.bound
       THEN /\ rot_angles' = [state |-> "array", vals |-> _extract_rotation_angles(ct_files.val)]
            /\ pc' = "done"
            /\ err' = err
       ELSE /\ Throw(Raise("UnboundLocalError", "ct_files"))
            /\ rot_angles' = rot_angles
    /\ UNCHANGED <<call, self_max_workers, role, filelist, max_workers, reader,
                   pool, status, rst, finished, ret, decodes, diags, pools, ct, ob, dc,
                   ct_files>>

---------------------------------------------------------------------------
(* _load_by_file_list *)

\* the max_workers that reaches _load_by_file_list: load_data passes none, so
\* the parameter keeps its default; a direct call passes its own
PassedMaxWorkers ==
    IF call.kind = "load_data" THEN FileListDefaultMaxWorkers ELSE call.max_workers

\* EmptyCheck without the test of ob_files
EmptyCheckCtOnly(ctf, obf) ==
    IF ctf = <<>> THEN Raise("ValueError", "ct_files cannot be empty list.")
    ELSE NoError

\* "empty list is not allowed": the error of the first empty mandatory list
EmptyCheck(ctf, obf) ==
    IF ctf = <<>> THEN Raise("ValueError", "ct_files cannot be empty list.")
    ELSE IF obf = <<>> THEN Raise("ValueError", "ob_files cannot be empty list.")
    ELSE NoError

\* the call _load_images(filelist=fl, desc=r, max_workers=w) begins
Enter(r, fl, w) ==
    /\ role' = r
    /\ filelist' = fl
    /\ max_workers' = w
    /\ reader' = "none"
    /\ pool' = 0
    /\ status' = [i \in 1..Len(fl) |-> "pending"]
    /\ rst' = [i \in 1..Len(fl) |-> Empty]
    /\ finished' = <<>>
    /\ pc' = "li_enter"

\* the checks for empty lists, then the ct batch
FileListCheck ==
    /\ pc = "fl_check"
    /\ LET e == EmptyCheck(call.ct_files, call.ob_files)
       IN  IF e # NoError
           THEN /\ Throw(e)
                /\ diags' = Append(diags, Log("error", "empty list", "none", 0))
                /\ UNCHANGED <<role, filelist, max_workers, reader, pool, status, rst, finished>>
           ELSE /\ Enter("ct", Filter(call.ct_files, call.ct_regex), PassedMaxWorkers)
                /\ diags' = IF call.dc_files = <<>>
                            THEN Append(diags, Log("warning", "dc_files is []", "none", 0))
                            ELSE diags
                /\ err' = err
    /\ UNCHANGED <<call, self_max_workers, ret, decodes, pools, ct, ob, dc,
                   ct_files, rot_angles>>

\* _load_by_file_list returns ct, ob, dc; load_data then binds ct_files
FileListReturn ==
    /\ pc = "fl_return"
    /\ IF call.kind = "load_data"
       THEN /\ ct_files' = Bound(call.ct_files)
            /\ pc' = "ld_extract"
       ELSE /\ ct_files' = ct_files
            /\ pc' = "done"
    /\ UNCHANGED <<call, err, self_max_workers, role, filelist, max_workers,
                   reader, pool, status, rst, finished, ret, decodes, diags, pools, ct, ob,
                   dc, rot_angles>>

---------------------------------------------------------------------------
(* _load_images and _forgiving_reader *)

\* SelectReader without the final else: anything that is not fits is read as tiff
SelectReaderNoElse(fl) ==
    LET file_ext == Suffix(fl[1])
    IN  IF file_ext = ".fits" THEN "read_fits" ELSE "read_tiff"

\* the reader for the suffix of the first file, or "unsupported"
SelectReader(fl) ==
    LET file_ext == Suffix(fl[1])
    IN  IF file_ext \in {".tif", ".tiff"} THEN "read_tiff"
        ELSE IF file_ext = ".fits" THEN "read_fits"
        ELSE "unsupported"

\* what the bytes of a file are, whatever reader is tried on them
Content(f) ==
    CASE f.ext \in {".tiff", ".TIF"} -> "tiff"
      [] f.ext = ".fits" -> "fits"
      [] OTHER -> "other"

\* reader(filename) returns an array (and does not raise)
Reads(rd, f) ==
    /\ f.good
    /\ \/ rd = "read_tiff" /\ Content(f) = "tiff"
       \/ rd = "read_fits" /\ Content(f) = "fits"

\* _forgiving_reader(filename, reader) for the file at position pos
_forgiving_reader(pos, f, rd) ==
    IF Reads(rd, f) THEN Frame(pos, f) ELSE Absent(pos, f)

\* StoreSlot for a pool that yields results as they complete
StoreSlotAsCompleted(i, done) == Len(done) + 1

\* the slot of rst that holds the result of the file at position i, done being
\* the reads that ended before: process_map returns the results in the order
\* of filelist
StoreSlot(i, done) == i

\* StackOf without the filter
StackKeepNone(results) == results

\* [me for me in rst if me is not None]
StackOf(results) == SelectSeq(results, LAMBDA me : me.kind # "None")

\* lines 241-248: the reader is chosen from filelist[0]
LoadImagesEnter ==
    /\ pc = "li_enter"
    /\ IF filelist = <<>>
       THEN /\ Throw(Raise("IndexError", "filelist[0]"))
            /\ UNCHANGED <<reader, diags>>
       ELSE LET rd == SelectReader(filelist)
            IN  IF rd = "unsupported"
                THEN /\ Throw(Raise("ValueError", "Unsupported file type."))
                     /\ diags' = Append(diags, Log("error", "unsupported", role, 1))
                     /\ reader' = reader
                ELSE /\ reader' = rd
                     /\ pc' = "li_pool"
                     /\ UNCHANGED <<err, diags>>
    /\ UNCHANGED <<call, self_max_workers, role, filelist, max_workers, pool,
                   status, rst, finished, ret, decodes, pools, ct, ob, dc, ct_files,
                   rot_angles>>

\* process_map creates a pool: of max_workers processes, or of a count the
\* executor picks when it is handed max_workers=0 and accepts it
PoolStart ==
    /\ pc = "li_pool"
    /\ \E n \in IF max_workers >= 1 THEN {max_workers} ELSE 1..MaxWorkers : pool' = n
    /\ pools' = Append(pools, [role |-> role, max_workers |-> max_workers])
    /\ pc' = "li_map"
    /\ UNCHANGED <<call, err, self_max_workers, role, filelist, max_workers,
                   reader, status, rst, finished, ret, decodes, diags, ct, ob, dc,
                   ct_files, rot_angles>>

\* process_map is handed max_workers=0 and the executor refuses it
\* (concurrent.futures: "max_workers must be greater than 0")
PoolReject ==
    /\ pc = "li_pool"
    /\ max_workers < 1
    /\ pools' = Append(pools, [role |-> role, max_workers |-> max_workers])
    /\ Throw(Raise("ValueError", "max_workers must be greater than 0"))
    /\ UNCHANGED <<call, self_max_workers, role, filelist, max_workers, reader,
                   pool, status, rst, finished, ret, decodes, diags, ct, ob, dc, ct_files,
                   rot_angles>>

Running == {i \in DOMAIN status : status[i] = "running"}

Pending == {i \in DOMAIN status : status[i] = "pending"}

\* a free worker takes the next file of filelist
WorkerStart ==
    /\ pc = "li_map"
    /\ Pending # {}
    /\ Cardinality(Running) < pool
    /\ LET i == CHOOSE j \in Pending : \A k \in Pending : j <= k
       IN  status' = [status EXCEPT ![i] = "running"]
    /\ UNCHANGED <<call, pc, err, self_max_workers, role, filelist, max_workers,
                   reader, pool, rst, finished, ret, decodes, diags, pools, ct, ob, dc,
                   ct_files, rot_angles>>

\* a worker finishes _forgiving_reader on its file; workers finish in any order
WorkerFinish(i) ==
    /\ pc = "li_map"
    /\ status[i] = "running"
    /\ LET me == _forgiving_reader(i, filelist[i], reader)
       IN  /\ rst' = [rst EXCEPT ![StoreSlot(i, finished)] = me]
           /\ diags' = IF me.kind = "None"
                       THEN Append(diags, Log("error", "Cannot read", role, i))
                       ELSE diags
    /\ status' = [status EXCEPT ![i] = "done"]
    /\ finished' = Append(finished, i)
    /\ decodes' = decodes \cup {[role |-> role, pos |-> i, reader |-> reader]}
    /\ UNCHANGED <<call, pc, err, self_max_workers, role, filelist, max_workers,
                   reader, pool, ret, pools, ct, ob, dc, ct_files, rot_angles>>

\* the pool has drained: return np.array([me for me in rst if me is not None])
Collect ==
    /\ pc = "li_map"
    /\ \A i \in DOMAIN status : status[i] = "done"
    /\ ret' = Array(StackOf(rst))
    /\ pc' = "li_return"
    /\ UNCHANGED <<call, err, self_max_workers, role, filelist, max_workers,
                   reader, pool, status, rst, finished, decodes, diags, pools, ct, ob, dc,
                   ct_files, rot_angles>>

\* the caller of _load_images takes the array: a direct caller is done,
\* _load_by_file_list goes on with the next role
LoadImagesReturn ==
    /\ pc = "li_return"
    /\ CASE call.kind = "_load_images" ->
              /\ pc' = "done"
              /\ UNCHANGED <<role, filelist, max_workers, reader, pool, status,
                             rst, finished, ct, ob, dc>>
         [] call.kind # "_load_images" /\ role = "ct" ->
              /\ ct' = ret
              /\ Enter("ob", Filter(call.ob_files, call.ob_regex), PassedMaxWorkers)
              /\ UNCHANGED <<ob, dc>>
         [] call.kind # "_load_images" /\ role = "ob" ->
              /\ ob' = ret
              /\ ct' = ct
              /\ IF call.dc_files = <<>>
                 THEN /\ dc' = None
                      /\ pc' = "fl_return"
                      /\ UNCHANGED <<role, filelist, max_workers, reader, pool,
                                     status, rst, finished>>
                 ELSE /\ Enter("dc", Filter(call.dc_files, call.dc_regex), PassedMaxWorkers)
                      /\ dc' = dc
         [] call.kind # "_load_images" /\ role = "dc" ->
              /\ dc' = ret
              /\ pc' = "fl_return"
              /\ UNCHANGED <<role, filelist, max_workers, reader, pool, status,
                             rst, finished, ct, ob>>
    /\ UNCHANGED <<call, err, self_max_workers, ret, decodes, diags, pools,
                   ct_files, rot_angles>>

---------------------------------------------------------------------------
(* Specifications *)

NextLoadImages ==
    \/ LoadImagesEnter
    \/ PoolStart
    \/ PoolReject
    \/ WorkerStart
    \/ \E i \in DOMAIN status : WorkerFinish(i)
    \/ Collect
    \/ LoadImagesReturn

NextFileList ==
    \/ FileListCheck
    \/ NextLoadImages
    \/ FileListReturn

NextLoadData ==
    \/ LoadDataValidate
    \/ LoadDataResolve
    \/ LoadDataDispatch
    \/ LoadByDir
    \/ NextFileList
    \/ LoadDataExtract

\* one direct call of _load_images
SpecLoadImages == InitLoadImages /\ [][NextLoadImages]_vars

\* one direct call of _load_by_file_list
SpecFileList == InitFileList /\ [][NextFileList]_vars

\* one call of load_data
SpecLoadData == InitLoadData /\ [][NextLoadData]_vars

---------------------------------------------------------------------------
(* Properties *)

Terminated == pc \in {"raised", "done"}

Returned == pc = "done"

IsValueError == err.type = "ValueError"

EmptyInputMessages == {"ct_files cannot be empty list.", "ob_files cannot be empty list."}

IsEmptyInputError == IsValueError /\ err.why \in EmptyInputMessages

NoIO == decodes = {} /\ pools = <<>> /\ ~ct_files.bound /\ rot_angles = NoAngles

\* the request supplies a *_files field and a *_dir field
Mixed == call.supplied \cap FileKeys # {} /\ call.supplied \cap DirKeys # {}

\* the request supplies neither ct_files with ob_files nor ct_dir with ob_dir
Unmatched ==
    /\ ~({"ct_files", "ob_files"} \subseteq call.supplied)
    /\ ~({"ct_dir", "ob_dir"} \subseteq call.supplied)

\* C1: a load_data call that supplies a *_files field and a *_dir field ends
\* in a ValueError, whatever else it supplies, and does no I/O.
C1_MixedRaisesValueError ==
    Mixed => NoIO /\ ~Returned /\ (pc = "raised" => IsValueError)

\* C2: max_workers = -1 ends in a ValueError; max_workers = 0 does not raise
\* on account of the worker count and is resolved to an integer >= 1, for
\* every cpu_count.
C2_ZeroResolvesPositive ==
    /\ (call.max_workers < 0 /\ Terminated) => IsValueError
    /\ ("max_workers" \in call.supplied /\ call.max_workers = 0
            /\ pc \notin {"ld_validate", "ld_resolve"})
         => /\ err.why # "max_workers out of bounds"
            /\ self_max_workers >= 1

FirstRecognised == filelist # <<>> /\ filelist[1].ext \in {".tiff", ".TIF", ".fits"}

\* the files of the batch whose read has ended in a failure
Failed == {i \in DOMAIN status : status[i] = "done" /\ ~Reads(reader, filelist[i])}

SkipDiags == SelectSeq(diags, LAMBDA d : d.what = "Cannot read" /\ d.role = role)

C5_OrderPreserved ==
    pc \in {"li_return", "done"}
      => /\ \A a, b \in DOMAIN ret.frames : a < b => ret.frames[a].pos < ret.frames[b].pos
         /\ \A a \in DOMAIN ret.frames : ret.frames[a].file = filelist[ret.frames[a].pos]

\* two files survive and the later one was read first
C5_Witness ==
    /\ pc = "done"
    /\ \E x, y \in DOMAIN finished :
         /\ x < y
         /\ finished[x] > finished[y]
         /\ \E a, b \in DOMAIN ret.frames :
              ret.frames[a].pos = finished[y] /\ ret.frames[b].pos = finished[x]

C7_ReaderFromFirstFile ==
    /\ (filelist # <<>> /\ ~FirstRecognised)
         => /\ pc \in {"li_enter", "raised"}
            /\ pc = "raised" => err = Raise("ValueError", "Unsupported file type.")
            /\ \A d \in decodes : d.role # role
    /\ FirstRecognised
         => /\ err.why # "Unsupported file type."
            /\ \A d \in decodes :
                 d.role = role =>
                   d.reader = IF filelist[1].ext = ".fits" THEN "read_fits" ELSE "read_tiff"

C7_Witness ==
    /\ pc = "raised"
    /\ Len(filelist) >= 2
    /\ filelist[1] = FileD
    /\ filelist[2] = FileA
    /\ err = Raise("ValueError", "Unsupported file type.")
    /\ decodes = {}

\* a non-empty list none of whose files the pattern matches
NoneMatch(files, regex) ==
    files # <<>> /\ \A i \in DOMAIN files : ~re_match(regex, files[i])

\* C8: when the pattern of ct or ob matches none of a non-empty list, the
\* call raises the empty-input ValueError and returns no empty stack.
C8_NoMatchIsEmptyInput ==
    (NoneMatch(call.ct_files, call.ct_regex) \/ NoneMatch(call.ob_files, call.ob_regex))
      => /\ ~Returned
         /\ pc = "raised" => IsValueError

\* C9: a load_data call that supplies neither signature in full ends in a
\* ValueError (the unimplemented directory strategy aside) and does no I/O.
C9_UnmatchedRaisesValueError ==
    Unmatched
      => /\ NoIO
         /\ ~Returned
         /\ (pc = "raised" /\ err.type # "NotImplementedError") => IsValueError

\* C10: every pool of a load_data call is created with the worker count the
\* call resolved, which is at least 1.
C10_PoolsGetResolvedCount ==
    call.kind = "load_data"
      => \A i \in DOMAIN pools :
           /\ pools[i].max_workers = self_max_workers
           /\ pools[i].max_workers >= 1

====
